---- MODULE Spec2Model ----
(***************************************************************************)
(* Pallet Tracker Pro (src/app.py): the identifier sequencer, the pallet   *)
(* table, the canonical CSV file with its temporary file, and the backup   *)
(* archive, driven by the buttons of the Streamlit script, and the login   *)
(* page with its attempt counter (LoginSpec).                              *)
(*                                                                         *)
(* Streamlit re-executes the whole script on every interaction, so every   *)
(* run starts with `pallets = load_data()` (line 243) on a fresh page and  *)
(* then runs the handler of the one button that was pressed.               *)
(*                                                                         *)
(* Text is modelled as a sequence of one-character strings.  The clock is  *)
(* an integer number of seconds: DATE_FORMAT and the backup file name both *)
(* have a resolution of one second.  A single-line text input cannot carry *)
(* a line terminator, so `$` of the pattern is the end of the text.        *)
(***************************************************************************)
EXTENDS Integers, Sequences, FiniteSets, TLC

VARIABLES
    now,          \* datetime.now(), in seconds
    fs,           \* the files of DATA_DIR: path -> content (DATA_FILE and its .tmp)
    backups,      \* files of BACKUP_DIR: a set of [name, ok, data]
    pallets,      \* the script's DataFrame `pallets` in the current or last run
    btn,          \* the button whose handler ran in the current or last run
    new_pallets,  \* result of generate_sequence in that run, or NoSeq
    msgs,         \* st.success / st.warning / st.error shown by that run
    pc,           \* position of the script: between runs ("idle"), after line 243
                  \* ("loaded"), or inside save_data and the end of the handler
    seq_in,       \* arguments of the generate_sequence call of the sequencer specification
    authenticated,   \* st.session_state.authenticated
    login_attempts,  \* st.session_state.login_attempts
    last_attempt     \* st.session_state.last_attempt, or NoAttempt for None

vars == <<now, fs, backups, pallets, btn, new_pallets, msgs, pc, seq_in,
          authenticated, login_attempts, last_attempt>>

\* the part of st.session_state that login() keeps
session == <<authenticated, login_attempts, last_attempt>>

-----------------------------------------------------------------------------
(* Bounds *)

MaxClock == 2
MaxCount == 2
MaxPrefixLen == 2
MaxDigitsLen == 2
MaxSeqCount == 3
MaxRetentionClock == 6
MaxLoginSecond == 1200
MaxLoginDays == 1
MaxAttempts == 4

-----------------------------------------------------------------------------
(* Text *)

LowerChars == {"p", "q"}
UpperChars == {"P", "Q"}
AlphaChars == LowerChars \cup UpperChars
DigitChars == {"0", "1", "2", "3", "4", "5", "6", "7", "8", "9"}
DigitSeq == <<"0", "1", "2", "3", "4", "5", "6", "7", "8", "9">>

\* str.upper() on one character
UpperChar(c) == CASE c = "p" -> "P" [] c = "q" -> "Q" [] OTHER -> c

\* str.upper()
StrUpper(s) == [k \in 1..Len(s) |-> UpperChar(s[k])]

\* str.strip(): drop leading and trailing blanks
RECURSIVE StrStrip(_)
StrStrip(s) ==
    IF s = <<>> THEN s
    ELSE IF Head(s) = " " THEN StrStrip(Tail(s))
    ELSE IF s[Len(s)] = " " THEN StrStrip(SubSeq(s, 1, Len(s) - 1))
    ELSE s

\* number of leading characters of s that are letters: the match of ^[A-Za-z]+
RECURSIVE LeadingAlpha(_)
LeadingAlpha(s) ==
    IF s # <<>> /\ Head(s) \in AlphaChars THEN 1 + LeadingAlpha(Tail(s)) ELSE 0

\* number of trailing characters of s that are digits: the match of \d+$
RECURSIVE TrailingDigits(_)
TrailingDigits(s) ==
    IF s # <<>> /\ s[Len(s)] \in DigitChars
    THEN 1 + TrailingDigits(SubSeq(s, 1, Len(s) - 1)) ELSE 0

\* value of one decimal digit character
DigitVal(c) == CHOOSE d \in 0..9 : DigitSeq[d + 1] = c

\* int(text) for a text of decimal digits
RECURSIVE ParseInt(_)
ParseInt(s) ==
    IF s = <<>> THEN 0
    ELSE 10 * ParseInt(SubSeq(s, 1, Len(s) - 1)) + DigitVal(s[Len(s)])

\* str(n) for n >= 0
RECURSIVE IntToStr(_)
IntToStr(n) ==
    IF n < 10 THEN <<DigitSeq[n + 1]>>
    ELSE Append(IntToStr(n \div 10), DigitSeq[(n % 10) + 1])

\* str.zfill(w): pad with zeros on the left up to width w, never truncate
RECURSIVE ZFill(_, _)
ZFill(s, w) == IF Len(s) >= w THEN s ELSE ZFill(<<"0">> \o s, w)

-----------------------------------------------------------------------------
(* Identifier sequencer *)

\* re.match(r'^[A-Za-z]+\d+$', pallet_no)
validate_pallet_number(pallet_no) ==
    LET a == LeadingAlpha(pallet_no)
    IN  /\ a >= 1
        /\ a < Len(pallet_no)
        /\ \A k \in (a + 1)..Len(pallet_no) : pallet_no[k] \in DigitChars

\* a sequencer that keeps the width fixed (drops the leading digits)
SeqItemTruncating(prefix, number, i, width) ==
    LET d == ZFill(IntToStr(number + i), width)
    IN  prefix \o SubSeq(d, Len(d) - width + 1, Len(d))

\* f"{prefix}{str(number + i).zfill(len(number_str))}"
SeqItem(prefix, number, i, width) == prefix \o ZFill(IntToStr(number + i), width)

\* a sequencer that never raises: it keeps the letters and the digits of the
\* text, whatever their order, and reads a text without digits as 0
generate_sequence_lenient(start_pallet, num_pallets) ==
    LET letters == SelectSeq(start_pallet, LAMBDA c : c \in AlphaChars)
        digits == SelectSeq(start_pallet, LAMBDA c : c \in DigitChars)
    IN  [err |-> FALSE,
         ids |-> [k \in 1..num_pallets |->
                     SeqItem(StrUpper(letters), ParseInt(digits), k - 1, Len(digits))]]

\* generate_sequence: [err |-> TRUE] stands for the raised ValueError, either
\* of the failed validation or of int(number_str)
generate_sequence(start_pallet, num_pallets) ==
    IF ~validate_pallet_number(start_pallet)
    THEN [err |-> TRUE, ids |-> <<>>]
    ELSE LET prefix == StrUpper(SubSeq(start_pallet, 1,
                                       Len(start_pallet) - TrailingDigits(start_pallet)))
             number_str == SubSeq(start_pallet, LeadingAlpha(start_pallet) + 1,
                                  Len(start_pallet))
         IN  IF number_str = <<>> \/ \E k \in 1..Len(number_str) : number_str[k] \notin DigitChars
             THEN [err |-> TRUE, ids |-> <<>>]
             ELSE [err |-> FALSE,
                   ids |-> [k \in 1..num_pallets |->
                               SeqItem(prefix, ParseInt(number_str), k - 1, Len(number_str))]]

-----------------------------------------------------------------------------
(* Tables and files *)

DATA_FILE == "data/pallet_data.csv"
TMP_FILE == "data/pallet_data.csv.tmp"
Paths == {DATA_FILE, TMP_FILE}

\* a path with no file
NoFile == [exists |-> FALSE, complete |-> TRUE, rows |-> <<>>]

\* the value of new_pallets in a run that did not call generate_sequence
NoSeq == [err |-> FALSE, ids |-> <<>>]

\* the Pallet_No column
PalletNos(df) == {df[k].Pallet_No : k \in 1..Len(df)}

\* a Date cell holding the text strftime(DATE_FORMAT) of second t
DateStr(t) == [kind |-> "str", t |-> t]

\* a Date cell holding the pandas Timestamp of second t
DateTimestamp(t) == [kind |-> "Timestamp", t |-> t]

\* df.to_csv(index=False): a str cell is written as it is and a Timestamp cell
\* as its text, both in the form of DATE_FORMAT
to_csv(df) ==
    [exists |-> TRUE, complete |-> TRUE,
     rows |-> [k \in 1..Len(df) |->
                 [Pallet_No |-> df[k].Pallet_No, Location |-> df[k].Location,
                  Status |-> df[k].Status, Date |-> df[k].Date.t]]]

\* a to_csv that was interrupted after n complete rows
to_csv_partial(df, n) ==
    [exists |-> TRUE, complete |-> FALSE, rows |-> SubSeq(to_csv(df).rows, 1, n)]

\* load_data: the rows of DATA_FILE with Pallet_No stripped and upper-cased and
\* Date parsed into a Timestamp; an absent file gives the empty table.  Every
\* Date text in the file was written in DATE_FORMAT, so no row is dropped.
load_data(f) ==
    IF ~f.exists THEN <<>>
    ELSE [k \in 1..Len(f.rows) |->
            [Pallet_No |-> StrUpper(StrStrip(f.rows[k].Pallet_No)),
             Location |-> f.rows[k].Location,
             Status |-> f.rows[k].Status,
             Date |-> DateTimestamp(f.rows[k].Date)]]

-----------------------------------------------------------------------------
(* Backup archive *)

KeepBackups == 5

\* names of the archive, i.e. sorted(glob(...)) as a set
BackupNames(arch) == {b.name : b \in arch}

\* sorted(glob(...), reverse=True): the names, newest first
RECURSIVE SortedDesc(_)
SortedDesc(S) ==
    IF S = {} THEN <<>>
    ELSE LET m == CHOOSE x \in S : \A y \in S : y <= x
         IN  <<m>> \o SortedDesc(S \ {m})

\* json.dump can serialise a table only when no Date cell is a Timestamp
JsonSerialisable(df) == \A k \in 1..Len(df) : df[k].Date.kind = "str"

\* backups[:-5] of the sorted names: all but the 5 greatest
OldBackups(names) ==
    {n \in names : Cardinality({m \in names : m > n}) >= KeepBackups}

\* create_backup(df) at second t: open(backup_file, 'w') truncates or creates
\* the entry named t; when json.dump raises, the entry stays behind unreadable
\* and the rotation is skipped.
create_backup(arch, df, t) ==
    LET others == {b \in arch : b.name # t}
    IN  IF JsonSerialisable(df)
        THEN LET written == others \cup {[name |-> t, ok |-> TRUE, data |-> to_csv(df).rows]}
             IN  [ret |-> TRUE,
                  arch |-> {b \in written : b.name \notin OldBackups(BackupNames(written))}]
        ELSE [ret |-> FALSE,
              arch |-> others \cup {[name |-> t, ok |-> FALSE, data |-> <<>>]}]

\* the value restore_backup returns on failure
None == [none |-> TRUE, df |-> <<>>, msg |-> "Failed to restore backup"]

\* a restore that hands back an empty table where restore_backup returns None
restore_backup_empty_on_failure(arch, name) ==
    IF name = 0 /\ arch = {}
    THEN [none |-> FALSE, df |-> <<>>, msg |-> ""]
    ELSE LET chosen == IF name = 0 THEN Head(SortedDesc(BackupNames(arch))) ELSE name
             entry == CHOOSE b \in arch : b.name = chosen
         IN  [none |-> FALSE, msg |-> "",
              df |-> IF ~entry.ok THEN <<>>
                     ELSE [k \in 1..Len(entry.data) |->
                             [Pallet_No |-> entry.data[k].Pallet_No,
                              Location |-> entry.data[k].Location,
                              Status |-> entry.data[k].Status,
                              Date |-> DateStr(entry.data[k].Date)]]]

\* restore_backup(backup_file): name = 0 stands for backup_file=None
restore_backup(arch, name) ==
    IF name = 0 /\ arch = {}
    THEN [none |-> TRUE, df |-> <<>>, msg |-> "No backup files found!"]
    ELSE LET chosen == IF name = 0 THEN Head(SortedDesc(BackupNames(arch))) ELSE name
             entry == CHOOSE b \in arch : b.name = chosen
         IN  IF ~entry.ok \/ entry.data = <<>>
             THEN None
             ELSE [none |-> FALSE, msg |-> "",
                   df |-> [k \in 1..Len(entry.data) |->
                             [Pallet_No |-> entry.data[k].Pallet_No,
                              Location |-> entry.data[k].Location,
                              Status |-> entry.data[k].Status,
                              Date |-> DateStr(entry.data[k].Date)]]]

-----------------------------------------------------------------------------
(* Inputs *)

\* the options the model presses "Add Pallets" and "Update Pallets" with
AddLocationInputs == {"SGT"}
AddStatusInputs == {"Received At"}
UpdateLocationInputs == {"DKP"}
UpdateStatusInputs == {"Delivered"}

\* texts typed into the three "Starting Pallet No" inputs.  "Add Pallets" gets
\* P10, "Update Pallets" gets p9, whose successor P10 needs one more digit, and
\* "Discard Pallets" gets P10; each of them also gets the malformed p-9, 10
\* and P, and the empty text, which is what the input holds before anything
\* is typed
InvalidStarts == {<<"p", "-", "9">>, <<"1", "0">>, <<"P">>, <<>>}
AddStarts == {<<"P", "1", "0">>} \cup InvalidStarts
UpdateStarts == {<<"p", "9">>} \cup InvalidStarts
DiscardStarts == {<<"P", "1", "0">>} \cup InvalidStarts

\* the values of the number inputs (min_value=1)
CountInputs == 1..MaxCount

-----------------------------------------------------------------------------
(* The script *)

\* the content of the canonical file
file == fs[DATA_FILE]

\* temp_file = DATA_FILE + ".tmp"; a save that writes in place
temp_file_in_place == DATA_FILE

temp_file == TMP_FILE

Init ==
    /\ now = 1
    /\ fs = [p \in Paths |-> NoFile]
    /\ backups = {}
    /\ pallets = <<>>
    /\ btn = "none"
    /\ new_pallets = NoSeq
    /\ msgs = {}
    /\ pc = "idle"
    /\ seq_in = [prefix |-> <<"P">>, digits |-> <<"1", "0">>, count |-> 1]
    /\ authenticated = TRUE
    /\ login_attempts = 0
    /\ last_attempt = now

\* the clock advances, between two runs or in the middle of one, up to
\* second `last`
TickUpTo(last) ==
    /\ now < last
    /\ now' = now + 1
    /\ UNCHANGED <<fs, backups, pallets, btn, new_pallets, msgs, pc, seq_in, session>>

Tick == TickUpTo(MaxClock)

\* an interaction starts a run when the previous run has ended: the page is
\* drawn anew and line 243 loads the table
StartRun ==
    /\ authenticated
    /\ pc = "idle"
    /\ pallets' = load_data(file)
    /\ btn' = "none"
    /\ new_pallets' = NoSeq
    /\ msgs' = {}
    /\ pc' = "loaded"
    /\ UNCHANGED <<now, fs, backups, seq_in, session>>

\* the script is past line 243 and reaches the handler of the pressed button
InHandler == pc = "loaded"

\* "Refresh Data": pallets = load_data()
Refresh ==
    /\ InHandler
    /\ pallets' = load_data(file)
    /\ btn' = "refresh"
    /\ msgs' = {"Data refreshed"}
    /\ pc' = "idle"
    /\ UNCHANGED <<now, fs, backups, new_pallets, seq_in, session>>

\* "Create Backup": create_backup(pallets)
CreateBackup ==
    /\ InHandler
    /\ LET r == create_backup(backups, pallets, now)
       IN  /\ backups' = r.arch
           /\ msgs' = IF r.ret THEN {"Backup created successfully"} ELSE {}
    /\ btn' = "backup"
    /\ pc' = "idle"
    /\ UNCHANGED <<now, fs, pallets, new_pallets, seq_in, session>>

\* the rows the Add handler builds for the identifiers in `added`
NewData(added, location, status, t) ==
    [k \in 1..Len(added) |->
        [Pallet_No |-> added[k], Location |-> location, Status |-> status,
         Date |-> DateStr(t)]]

\* an Add handler without the membership test of line 288
IsSkippedNever(pallet, df) == FALSE

\* pallet in pallets["Pallet_No"].values
IsSkipped(pallet, df) == pallet \in PalletNos(df)

\* the lists `added` and `skipped` the Add handler builds for the batch `ids`
Added(df, ids) == SelectSeq(ids, LAMBDA p : ~IsSkipped(p, df))
Skipped(df, ids) == SelectSeq(ids, LAMBDA p : IsSkipped(p, df))

\* "Add Pallets", up to the call of save_data
AddPallets(start_pallet, num_pallets, location, status) ==
    /\ InHandler
    /\ btn' = "add"
    /\ LET df == pallets
           gen == generate_sequence(start_pallet, num_pallets)
           added == Added(df, gen.ids)
           skipped == Skipped(df, gen.ids)
       IN  /\ new_pallets' = gen
           /\ IF gen.err
              THEN /\ pallets' = df
                   /\ msgs' = {"Invalid format"}
                   /\ pc' = "idle"
              ELSE /\ pallets' = df \o NewData(added, location, status, now)
                   /\ msgs' = IF skipped # <<>> THEN {"Skipped existing pallets"} ELSE {}
                   /\ pc' = IF added # <<>> THEN "write_tmp" ELSE "idle"
    /\ UNCHANGED <<now, fs, backups, seq_in, session>>

\* an update that leaves the records whose status is "Discarded" alone
UpdateRowsKeepingDiscarded(df, ids, new_location, new_status, t) ==
    [k \in 1..Len(df) |->
        IF /\ \E j \in 1..Len(ids) : ids[j] = df[k].Pallet_No
           /\ df[k].Status # "Discarded"
        THEN [df[k] EXCEPT !.Location = new_location, !.Status = new_status,
                           !.Date = DateTimestamp(t)]
        ELSE df[k]]

\* an update that inserts the pallets of the batch it does not find
UpdateRowsUpsert(df, ids, new_location, new_status, t) ==
    [k \in 1..Len(df) |->
        IF \E j \in 1..Len(ids) : ids[j] = df[k].Pallet_No
        THEN [df[k] EXCEPT !.Location = new_location, !.Status = new_status,
                           !.Date = DateTimestamp(t)]
        ELSE df[k]]
    \o NewData(SelectSeq(ids, LAMBDA p : p \notin PalletNos(df)), new_location, new_status, t)

\* pallets.loc[pallets["Pallet_No"] == pallet, ["Location", "Status", "Date"]] = [...]
\* for every pallet of the batch; the Date text is coerced by the datetime column
UpdateRows(df, ids, new_location, new_status, t) ==
    [k \in 1..Len(df) |->
        IF \E j \in 1..Len(ids) : ids[j] = df[k].Pallet_No
        THEN [df[k] EXCEPT !.Location = new_location, !.Status = new_status,
                           !.Date = DateTimestamp(t)]
        ELSE df[k]]

\* a discard that assigns the Status column only
DiscardRowsKeepingDate(df, ids, t) ==
    [k \in 1..Len(df) |->
        IF \E j \in 1..Len(ids) : ids[j] = df[k].Pallet_No
        THEN [df[k] EXCEPT !.Status = "Discarded"]
        ELSE df[k]]

\* a discard that drops the rows of the batch from the table
DiscardRowsRemoving(df, ids, t) ==
    SelectSeq(df, LAMBDA r : \A j \in 1..Len(ids) : ids[j] # r.Pallet_No)

\* a discard that also assigns the Location column
DiscardRowsWithLocation(df, ids, t) ==
    [k \in 1..Len(df) |->
        IF \E j \in 1..Len(ids) : ids[j] = df[k].Pallet_No
        THEN [df[k] EXCEPT !.Location = "SGT", !.Status = "Discarded",
                           !.Date = DateTimestamp(t)]
        ELSE df[k]]

\* pallets.loc[pallets["Pallet_No"] == pallet, ["Status", "Date"]] = [...]
DiscardRows(df, ids, t) ==
    [k \in 1..Len(df) |->
        IF \E j \in 1..Len(ids) : ids[j] = df[k].Pallet_No
        THEN [df[k] EXCEPT !.Status = "Discarded", !.Date = DateTimestamp(t)]
        ELSE df[k]]

\* the counter `updated` / `discarded`: pallets of the batch found in the table
Found(df, ids) == Cardinality({j \in 1..Len(ids) : ids[j] \in PalletNos(df)})

\* "Update Pallets", up to the call of save_data
UpdatePallets(update_start, update_count, new_location, new_status) ==
    /\ InHandler
    /\ btn' = "update"
    /\ LET df == pallets
           gen == generate_sequence(update_start, update_count)
           updated == Found(df, gen.ids)
       IN  /\ new_pallets' = gen
           /\ IF gen.err
              THEN /\ pallets' = df
                   /\ msgs' = {"Invalid format"}
                   /\ pc' = "idle"
              ELSE /\ pallets' = UpdateRows(df, gen.ids, new_location, new_status, now)
                   /\ msgs' = IF updated = 0 THEN {"No matching pallets found"} ELSE {}
                   /\ pc' = IF updated # 0 THEN "write_tmp" ELSE "idle"
    /\ UNCHANGED <<now, fs, backups, seq_in, session>>

\* "Discard Pallets", up to the call of save_data
DiscardPallets(discard_start, discard_count) ==
    /\ InHandler
    /\ btn' = "discard"
    /\ LET df == pallets
           gen == generate_sequence(discard_start, discard_count)
           discarded == Found(df, gen.ids)
       IN  /\ new_pallets' = gen
           /\ IF gen.err
              THEN /\ pallets' = df
                   /\ msgs' = {"Invalid format"}
                   /\ pc' = "idle"
              ELSE /\ pallets' = DiscardRows(df, gen.ids, now)
                   /\ msgs' = IF discarded = 0 THEN {"No matching pallets found"} ELSE {}
                   /\ pc' = IF discarded # 0 THEN "write_tmp" ELSE "idle"
    /\ UNCHANGED <<now, fs, backups, seq_in, session>>

\* restore handlers that put the restored table in memory and do not call
\* save_data
RestoreWithoutSave(b, name) ==
    /\ InHandler
    /\ btn' = b
    /\ LET restored == restore_backup(backups, name)
       IN  IF restored.none
           THEN /\ pallets' = pallets
                /\ msgs' = {restored.msg}
           ELSE /\ pallets' = restored.df
                /\ msgs' = {"Data restored from backup"}
    /\ pc' = "idle"
    /\ UNCHANGED <<now, fs, backups, new_pallets, seq_in, session>>

\* the two restore handlers, up to the call of save_data
Restore(b, name) ==
    /\ InHandler
    /\ btn' = b
    /\ LET restored == restore_backup(backups, name)
       IN  IF restored.none
           THEN /\ pallets' = pallets
                /\ msgs' = {restored.msg}
                /\ pc' = "idle"
           ELSE /\ pallets' = restored.df
                /\ msgs' = {}
                /\ pc' = "write_tmp"
    /\ UNCHANGED <<now, fs, backups, new_pallets, seq_in, session>>

\* "Restore Latest Backup": restore_backup()
RestoreLatest == Restore("restore_latest", 0)

\* "Restore Selected Backup": restore_backup(selected_backup); with an empty
\* archive the select box holds None
RestoreSelected ==
    IF backups = {} THEN Restore("restore_selected", 0)
    ELSE \E name \in BackupNames(backups) : Restore("restore_selected", name)

-----------------------------------------------------------------------------
(* save_data, step by step, and the end of the handler *)

\* A temporary file that a failed save_data leaves behind is never read: the
\* next to_csv truncates it.  Its rows are therefore not tracked, only whether
\* it exists and whether it was written completely.
Leftover(f) == [f EXCEPT ![TMP_FILE].rows = <<>>]

\* os.replace(src, dst) / os.rename(src, dst)
os_replace(f, src, dst) ==
    IF src = dst THEN f ELSE [f EXCEPT ![dst] = f[src], ![src] = NoFile]

\* the message the handler shows when save_data returned True
SuccessMsg(b) ==
    CASE b = "add" -> "Added pallets"
      [] b = "update" -> "Updated pallets"
      [] b = "discard" -> "Discarded pallets"
      [] b = "restore_selected" -> "Data restored from selected backup"
      [] OTHER -> "Data restored from backup"

\* df.to_csv(temp_file, index=False) completes
WriteTempOk ==
    /\ pc = "write_tmp"
    /\ fs' = [fs EXCEPT ![temp_file] = to_csv(pallets)]
    /\ pc' = "replace"
    /\ UNCHANGED <<now, backups, pallets, btn, new_pallets, msgs, seq_in, session>>

\* df.to_csv(temp_file, index=False) raises: the file could not be opened, or
\* the write stopped after n rows; save_data returns False
WriteTempFails ==
    /\ pc = "write_tmp"
    /\ \/ fs' = fs
       \/ \E n \in 0..(Len(pallets) - 1) :
             fs' = Leftover([fs EXCEPT ![temp_file] = to_csv_partial(pallets, n)])
    /\ msgs' = msgs \cup {"Failed to save data"}
    /\ pc' = "idle"
    /\ UNCHANGED <<now, backups, pallets, btn, new_pallets, seq_in, session>>

\* os.replace / os.rename completes; save_data returns True
ReplaceOk ==
    /\ pc = "replace"
    /\ fs' = os_replace(fs, temp_file, DATA_FILE)
    /\ IF btn = "add"
       THEN pc' = "backup" /\ UNCHANGED msgs
       ELSE pc' = "idle" /\ msgs' = msgs \cup {SuccessMsg(btn)}
    /\ UNCHANGED <<now, backups, pallets, btn, new_pallets, seq_in, session>>

\* os.replace / os.rename raises; save_data returns False and the complete
\* temporary file stays behind
ReplaceFails ==
    /\ pc = "replace"
    /\ msgs' = msgs \cup {"Failed to save data"}
    /\ pc' = "idle"
    /\ fs' = Leftover(fs)
    /\ UNCHANGED <<now, backups, pallets, btn, new_pallets, seq_in, session>>

\* lines 303-304 of the Add handler: create_backup(pallets), st.success
AddBackup ==
    /\ pc = "backup"
    /\ backups' = create_backup(backups, pallets, now).arch
    /\ msgs' = msgs \cup {SuccessMsg("add")}
    /\ pc' = "idle"
    /\ UNCHANGED <<now, fs, pallets, btn, new_pallets, seq_in, session>>

Next ==
    \/ Tick
    \/ StartRun
    \/ Refresh
    \/ CreateBackup
    \/ \E s \in AddStarts, n \in CountInputs,
          l \in AddLocationInputs, st \in AddStatusInputs : AddPallets(s, n, l, st)
    \/ \E s \in UpdateStarts, n \in CountInputs,
          l \in UpdateLocationInputs, st \in UpdateStatusInputs : UpdatePallets(s, n, l, st)
    \/ \E s \in DiscardStarts, n \in CountInputs : DiscardPallets(s, n)
    \/ RestoreLatest
    \/ RestoreSelected
    \/ WriteTempOk
    \/ WriteTempFails
    \/ ReplaceOk
    \/ ReplaceFails
    \/ AddBackup

Spec == Init /\ [][Next]_vars

-----------------------------------------------------------------------------
(* The sequencer on its own: generate_sequence applied to every start text   *)
(* made of a prefix of letters and a text of digits, and every count         *)

SeqLetters == {"p", "P", "q"}
SeqDigits == {"0", "1", "9"}
PrefixInputs == UNION {[1..n -> SeqLetters] : n \in 1..MaxPrefixLen}
DigitInputs == UNION {[1..n -> SeqDigits] : n \in 1..MaxDigitsLen}

SeqInit ==
    /\ now = 1
    /\ fs = [p \in Paths |-> NoFile]
    /\ backups = {}
    /\ pallets = <<>>
    /\ btn = "none"
    /\ new_pallets = NoSeq
    /\ msgs = {}
    /\ pc = "idle"
    /\ seq_in \in [prefix : PrefixInputs, digits : DigitInputs, count : 1..MaxSeqCount]
    /\ authenticated = TRUE
    /\ login_attempts = 0
    /\ last_attempt = now

\* new_pallets = generate_sequence(start_pallet, num_pallets)
CallGenerateSequence ==
    /\ btn = "none"
    /\ btn' = "generate_sequence"
    /\ new_pallets' = generate_sequence(seq_in.prefix \o seq_in.digits, seq_in.count)
    /\ UNCHANGED <<now, fs, backups, pallets, msgs, pc, seq_in, session>>

SeqNext == CallGenerateSequence

SeqSpec == SeqInit /\ [][SeqNext]_vars

-----------------------------------------------------------------------------
(* The archive over a longer time: one pallet is added and backups are taken *)

RetentionTick == TickUpTo(MaxRetentionClock)

RetentionNext ==
    \/ RetentionTick
    \/ StartRun
    \/ CreateBackup
    \/ AddPallets(<<"P", "1", "0">>, 1, "SGT", "Received At")
    \/ WriteTempOk
    \/ ReplaceOk
    \/ AddBackup

RetentionSpec == Init /\ [][RetentionNext]_vars

-----------------------------------------------------------------------------
(* The login page: the script of a session that is not authenticated *)

USERNAME == "admin"

\* the text typed at "Set admin password:" when the script started
PASSWORD == "secret"

\* hashlib.sha256(text).hexdigest(): different texts give different digests
sha256(text) == <<"sha256", text>>

PASSWORD_HASH == sha256(PASSWORD)

\* the texts typed into the login form
UsernameInputs == {"admin", "guest"}
PasswordInputs == {"secret", "guess"}

\* st.session_state.last_attempt = None
NoAttempt == 0

LockAttempts == 3
LockSeconds == 300
DaySeconds == 86400

\* timedelta.seconds of an interval of d >= 0 seconds: the seconds within the
\* day, the whole days being held by timedelta.days
seconds(d) == d % DaySeconds

\* a lockout test that lets a fourth attempt through
LockedOutAfterFour ==
    /\ login_attempts > LockAttempts
    /\ last_attempt # NoAttempt
    /\ seconds(now - last_attempt) < LockSeconds

\* the test of lines 195-197: temporarily locked out
LockedOut ==
    /\ login_attempts >= LockAttempts
    /\ last_attempt # NoAttempt
    /\ seconds(now - last_attempt) < LockSeconds

\* the state of the script that is not touched by login() and logout()
tracker == <<fs, backups, pallets, new_pallets, pc, seq_in>>

LoginInit ==
    /\ now = 1
    /\ fs = [p \in Paths |-> NoFile]
    /\ backups = {}
    /\ pallets = <<>>
    /\ btn = "none"
    /\ new_pallets = NoSeq
    /\ msgs = {}
    /\ pc = "idle"
    /\ seq_in = [prefix |-> <<"P">>, digits |-> <<"1", "0">>, count |-> 1]
    /\ authenticated = FALSE
    /\ login_attempts = 0
    /\ last_attempt = NoAttempt

\* the clock advances by a little less than the lockout or by a whole day
LoginSteps == {LockSeconds - 1, DaySeconds}

LoginTick ==
    /\ \E d \in LoginSteps :
          /\ (now + d) % DaySeconds <= MaxLoginSecond
          /\ (now + d) \div DaySeconds <= MaxLoginDays
          /\ now' = now + d
    /\ UNCHANGED <<btn, msgs, tracker, session>>

\* a run of login() in which the form is not submitted, or is not reached
\* because of the early return of line 200
LoginPage ==
    /\ ~authenticated
    /\ btn' = "login_page"
    /\ msgs' = IF LockedOut THEN {"Too many failed attempts"} ELSE {}
    /\ UNCHANGED <<now, tracker, session>>

\* a run of login() in which the form is submitted with these texts
SubmitLogin(username, password) ==
    /\ ~authenticated
    /\ ~LockedOut
    /\ btn' = "login"
    /\ last_attempt' = now
    /\ IF username = USERNAME /\ sha256(password) = PASSWORD_HASH
       THEN /\ authenticated' = TRUE
            /\ login_attempts' = 0
            /\ msgs' = {"Login successful!"}
       ELSE /\ login_attempts < MaxAttempts
            /\ authenticated' = FALSE
            /\ login_attempts' = login_attempts + 1
            /\ msgs' = {"Invalid credentials"} \cup
                       IF login_attempts + 1 >= LockAttempts
                       THEN {"Too many failed attempts"} ELSE {}
    /\ UNCHANGED <<now, tracker>>

\* logout()
Logout ==
    /\ authenticated
    /\ authenticated' = FALSE
    /\ btn' = "logout"
    /\ msgs' = {"Logged out successfully"}
    /\ UNCHANGED <<now, tracker, login_attempts, last_attempt>>

LoginNext ==
    \/ LoginTick
    \/ LoginPage
    \/ \E username \in UsernameInputs, password \in PasswordInputs :
          SubmitLogin(username, password)
    \/ Logout

LoginSpec == LoginInit /\ [][LoginNext]_vars

-----------------------------------------------------------------------------
(* Properties *)

\* the step of a run in which button b was pressed: the handler up to save_data,
\* taken from the state in which `pallets` is the table loaded at line 243
HandlerStep(b) == pc = "loaded" /\ btn' = b

\* the content of a table, whatever the type of its Date cells
Content(df) == to_csv(df).rows

\* decimal value of a text of digits, read from the left
DigitOf(c) ==
    CASE c = "0" -> 0 [] c = "1" -> 1 [] c = "2" -> 2 [] c = "3" -> 3 [] c = "4" -> 4
      [] c = "5" -> 5 [] c = "6" -> 6 [] c = "7" -> 7 [] c = "8" -> 8 [] c = "9" -> 9

RECURSIVE DecValueAcc(_, _)
DecValueAcc(s, acc) ==
    IF s = <<>> THEN acc ELSE DecValueAcc(Tail(s), 10 * acc + DigitOf(Head(s)))

DecValue(s) == DecValueAcc(s, 0)

\* number of decimal digits of n >= 0
RECURSIVE DecLen(_)
DecLen(n) == IF n < 10 THEN 1 ELSE 1 + DecLen(n \div 10)

\* u is the upper-case form of the letter c
IsUpperOf(u, c) == <<c, u>> \in {<<"p", "P">>, <<"P", "P">>, <<"q", "Q">>, <<"Q", "Q">>}

\* the digits of identifier id after a prefix of length n
Suffix(id, n) == SubSeq(id, n + 1, Len(id))

\* s is one or more letters followed by one or more digits
LettersThenDigits(s) ==
    \E k \in 1..(Len(s) - 1) :
       /\ \A i \in 1..k : s[i] \in AlphaChars
       /\ \A i \in (k + 1)..Len(s) : s[i] \in DigitChars

\* C1: for a start text of letters p and digits d (width w, value n) and a
\* count >= 1, generate_sequence returns exactly count identifiers; the i-th is
\* the upper-cased p followed by n+i written in decimal with max(w, digits of
\* n+i) digits, so it is never truncated; the numeric suffixes increase
\* strictly and the identifiers are pairwise distinct.
SequenceContract ==
    btn = "generate_sequence" =>
        LET p == seq_in.prefix
            w == Len(seq_in.digits)
            n == DecValue(seq_in.digits)
            ids == new_pallets.ids
        IN  /\ ~new_pallets.err
            /\ Len(ids) = seq_in.count
            /\ \A i \in 1..Len(ids) :
                  LET x == n + i - 1
                      width == IF DecLen(x) > w THEN DecLen(x) ELSE w
                  IN  /\ Len(ids[i]) = Len(p) + width
                      /\ \A k \in 1..Len(p) : IsUpperOf(ids[i][k], p[k])
                      /\ \A k \in (Len(p) + 1)..Len(ids[i]) : ids[i][k] \in DigitChars
                      /\ DecValue(Suffix(ids[i], Len(p))) = x
            /\ \A i, j \in 1..Len(ids) :
                  i < j => /\ DecValue(Suffix(ids[i], Len(p))) < DecValue(Suffix(ids[j], Len(p)))
                           /\ ids[i] # ids[j]

\* a sequence from a lower-case prefix whose last identifier outgrew the width
SequenceGrewWitness ==
    /\ btn = "generate_sequence"
    /\ seq_in.count >= 2
    /\ \E k \in 1..Len(seq_in.prefix) : seq_in.prefix[k] \in LowerChars
    /\ Len(new_pallets.ids[seq_in.count]) > Len(seq_in.prefix) + Len(seq_in.digits)
    /\ Len(new_pallets.ids[1]) = Len(seq_in.prefix) + Len(seq_in.digits)

\* no two rows of table df have the same Pallet_No
Unique(df) == \A i, j \in 1..Len(df) : i # j => df[i].Pallet_No # df[j].Pallet_No

\* C2: in every reachable state no two records of the store have the same
\* Pallet_No, neither in the table in memory nor in the table the next run loads.
UniquePalletNos == Unique(pallets) /\ Unique(load_data(file))

\* an add of two identifiers ended: one existed and was skipped, one was added
UniqueWitness ==
    /\ btn = "add" /\ pc = "idle"
    /\ "Skipped existing pallets" \in msgs
    /\ "Added pallets" \in msgs
    /\ Len(pallets) = 2

\* C3: when an add has completed, the same add issued again with nothing in
\* between creates no record and skips every identifier of its batch: on the
\* table its run loads, the handler's list `added` is empty and its list
\* `skipped` is the whole batch.
AddIdempotent ==
    (btn = "add" /\ pc = "idle" /\ ~new_pallets.err)
    => LET again == load_data(file)
       IN  /\ Added(again, new_pallets.ids) = <<>>
           /\ Skipped(again, new_pallets.ids) = new_pallets.ids

\* C4: an update or discard run leaves the set of identifiers of the store as
\* it loaded it and every record outside the batch as it was; when no
\* identifier of the batch is in the store, the store, the canonical file, its
\* temporary file and the archive are unchanged and nothing is saved.
UpdateDiscardFrame ==
    [][(HandlerStep("update") \/ HandlerStep("discard")) =>
          LET before == pallets
              batch == {new_pallets'.ids[k] : k \in 1..Len(new_pallets'.ids)}
          IN  /\ Len(pallets') = Len(before)
              /\ \A k \in 1..Len(before) :
                    /\ pallets'[k].Pallet_No = before[k].Pallet_No
                    /\ before[k].Pallet_No \notin batch => pallets'[k] = before[k]
              /\ batch \cap PalletNos(before) = {} =>
                    /\ pallets' = before
                    /\ fs' = fs
                    /\ backups' = backups
                    /\ pc' = "idle"]_vars

\* an update whose batch is absent from a store that is not empty
UpdateAbsentWitness ==
    /\ btn = "update" /\ pc = "idle"
    /\ ~new_pallets.err
    /\ pallets # <<>>
    /\ \A k \in 1..Len(new_pallets.ids) : new_pallets.ids[k] \notin PalletNos(pallets)

\* C5: after an update or discard, every identifier of the batch that is not in
\* the store has been reported as not found, also when other identifiers of the
\* batch were found and changed.
NotFoundReported ==
    (/\ btn \in {"update", "discard"} /\ pc = "idle"
     /\ ~new_pallets.err
     /\ \E k \in 1..Len(new_pallets.ids) : new_pallets.ids[k] \notin PalletNos(pallets))
    => "No matching pallets found" \in msgs

\* C6: a discard run sets every record of the batch that is in the store to
\* status "Discarded" with the current time as Date and leaves its location
\* and identifier; every record outside the batch keeps every field.
DiscardEffect ==
    [][HandlerStep("discard") =>
          LET before == pallets
              batch == {new_pallets'.ids[k] : k \in 1..Len(new_pallets'.ids)}
          IN  /\ Len(pallets') = Len(before)
              /\ \A k \in 1..Len(before) :
                    IF before[k].Pallet_No \in batch
                    THEN /\ pallets'[k].Status = "Discarded"
                         /\ pallets'[k].Date.t = now
                         /\ pallets'[k].Location = before[k].Location
                         /\ pallets'[k].Pallet_No = before[k].Pallet_No
                    ELSE pallets'[k] = before[k]]_vars

\* a discard of a record at DKP, with a second record outside the batch
DiscardWitness ==
    /\ btn = "discard" /\ pc = "idle"
    /\ Len(new_pallets.ids) = 1
    /\ Len(pallets) = 2
    /\ pallets[1].Pallet_No = new_pallets.ids[1]
    /\ pallets[1].Status = "Discarded"
    /\ pallets[1].Location = "DKP"
    /\ pallets[1].Date.t > pallets[2].Date.t
    /\ pallets[2].Status = "Received At"

\* C7: once a snapshot call has returned, the archive lists at most 5 entries.
RetentionBound == Cardinality(BackupNames(backups)) <= KeepBackups

\* C8: every step leaves the canonical file as it was or replaces it by the
\* complete content of the store being saved; it is never a partial file.
AtomicReplace ==
    [][/\ fs'[DATA_FILE].complete
       /\ \/ fs'[DATA_FILE] = fs[DATA_FILE]
          \/ fs'[DATA_FILE] = to_csv(pallets)]_vars

\* a save failed in the middle of the write: a partial temporary file is left and
\* the canonical file still has its previous content
AtomicReplaceWitness ==
    /\ pc = "idle"
    /\ "Failed to save data" \in msgs
    /\ fs[TMP_FILE].exists /\ ~fs[TMP_FILE].complete
    /\ file.exists /\ file.complete
    /\ file # to_csv(pallets)

\* C9: a failing save is reported and leaves the store in memory as it was,
\* and that store is what the next operation reads: the run that follows the
\* failure starts from the same content.
StoreSurvivesFailedSave ==
    [][/\ (\/ pc = "write_tmp" /\ pc' = "idle"
           \/ pc = "replace" /\ pc' = "idle" /\ fs'[TMP_FILE].exists)
          => ("Failed to save data" \in msgs' /\ pallets' = pallets)
       /\ (pc = "idle" /\ pc' = "loaded" /\ "Failed to save data" \in msgs)
          => Content(pallets') = Content(pallets)]_vars

\* C10: an add, update or discard whose start text is not letters followed by
\* digits changes nothing, whatever the count: the store is as loaded, the
\* files and the archive are unchanged, nothing is saved and the error is
\* shown.  Stated as: every step either has this effect or is not the run of
\* one of the three handlers on a malformed start text.
InvalidStartRejected ==
    [][\/ /\ pallets' = pallets
          /\ fs' = fs
          /\ backups' = backups
          /\ pc' = "idle"
          /\ "Invalid format" \in msgs'
       \/ ~ \E s \in {x \in AddStarts \cup UpdateStarts \cup DiscardStarts :
                           ~LettersThenDigits(x)},
                n \in CountInputs :
                \/ \E l \in AddLocationInputs, st \in AddStatusInputs : AddPallets(s, n, l, st)
                \/ \E l \in UpdateLocationInputs, st \in UpdateStatusInputs :
                      UpdatePallets(s, n, l, st)
                \/ DiscardPallets(s, n)]_vars

\* a run with a malformed start text ended on a store that is not empty
InvalidStartWitness ==
    /\ btn \in {"add", "update", "discard"} /\ pc = "idle"
    /\ new_pallets.err
    /\ "Invalid format" \in msgs
    /\ pallets # <<>>

\* the entry a restore of `name` reads (name = 0: the newest one) cannot give a
\* table: there is none, it is unreadable, or its data has no columns
NoUsableEntry(arch, name) ==
    \/ name = 0 /\ arch = {}
    \/ \E b \in arch :
          /\ IF name = 0 THEN \A c \in arch : c.name <= b.name ELSE b.name = name
          /\ ~b.ok \/ b.data = <<>>

\* C11: a restore that fails (empty archive, unreadable entry, data without the
\* required columns) returns no table: the run shows the error, saves nothing
\* and leaves the table in memory, the files and the archive as they were.
FailedRestoreFrame ==
    [][\A b \in {"restore_latest", "restore_selected"},
          name \in {0} \cup BackupNames(backups) :
          (Restore(b, name) /\ NoUsableEntry(backups, name))
          => /\ pallets' = pallets
             /\ fs' = fs
             /\ backups' = backups
             /\ pc' = "idle"
             /\ msgs' \cap {"No backup files found!", "Failed to restore backup"} # {}]_vars

\* a restore from an archive whose chosen entry is unreadable failed on a store
\* that is not empty
FailedRestoreWitness ==
    /\ btn \in {"restore_latest", "restore_selected"} /\ pc = "idle"
    /\ "Failed to restore backup" \in msgs
    /\ \E b \in backups : ~b.ok
    /\ pallets # <<>>
    /\ file = to_csv(pallets)

\* the run of one of the two restore buttons
RestoreRun == btn \in {"restore_latest", "restore_selected"}

\* C12, as claimed: no step of a restore run changes the canonical file; it
\* takes the restored content only through a separate save afterwards.
RestoreLeavesFile ==
    [][RestoreRun => fs'[DATA_FILE] = fs[DATA_FILE]]_vars

\* C12, amended: a successful restore_backup only hands the table of the entry
\* to the handler and writes nothing, and the handler saves it at once: when
\* the save succeeds the canonical file holds the restored content at the end
\* of the run, and when it fails the canonical file keeps its content.
RestoreSavesAtOnce ==
    [][/\ \A b \in {"restore_latest", "restore_selected"},
             name \in {0} \cup BackupNames(backups) :
             (Restore(b, name) /\ ~NoUsableEntry(backups, name))
             => /\ fs' = fs
                /\ backups' = backups
                /\ pc' = "write_tmp"
                /\ \E e \in backups : e.ok /\ e.data = Content(pallets')
       /\ (RestoreRun /\ pc = "replace" /\ pc' = "idle")
          => \/ /\ SuccessMsg(btn) \in msgs'
                /\ fs'[DATA_FILE] = to_csv(pallets)
             \/ /\ "Failed to save data" \in msgs'
                /\ fs'[DATA_FILE] = fs[DATA_FILE]
       /\ (RestoreRun /\ pc = "write_tmp" /\ pc' = "idle")
          => /\ "Failed to save data" \in msgs'
             /\ fs'[DATA_FILE] = fs[DATA_FILE]]_vars

\* a restore run ended with its success message: the canonical file holds the
\* table of an archive entry, which differs from the newer record it replaced
RestoreSavedWitness ==
    /\ RestoreRun /\ pc = "idle"
    /\ SuccessMsg(btn) \in msgs
    /\ file = to_csv(pallets)
    /\ \E e \in backups : e.ok /\ e.data = file.rows /\ e.data # <<>>
    /\ \E k \in 1..Len(pallets) : pallets[k].Date.t < now

\* the run of one of the three batch buttons
BatchRun == btn \in {"add", "update", "discard"}

\* the newest entry of the archive holds table df
NewestHolds(arch, df) ==
    \E e \in arch :
       /\ \A c \in arch : c.name <= e.name
       /\ e.ok
       /\ e.data = Content(df)

\* C13: when an add, update or discard that changed a record has completed with
\* its success message, the canonical file holds the store of that run and so
\* does the newest entry of the archive.
MutationSavedAndSnapshot ==
    (BatchRun /\ pc = "idle" /\ SuccessMsg(btn) \in msgs)
    => /\ file = to_csv(pallets)
       /\ NewestHolds(backups, pallets)

\* the identifiers of the table held by the canonical file f
FileNos(f) == PalletNos(load_data(f[DATA_FILE]))

\* C14, as claimed: no step removes an identifier, neither from the table the
\* running handler works on nor from the canonical file, whichever button
\* (restore included) was pressed.
NeverRemoved ==
    [][/\ pc = "loaded" => PalletNos(pallets) \subseteq PalletNos(pallets')
       /\ fs'[DATA_FILE] = fs[DATA_FILE] \/ FileNos(fs) \subseteq FileNos(fs')]_vars

\* C14, amended: add, update, discard, refresh and snapshot never remove an
\* identifier: the table their handler works on keeps every identifier of the
\* table it loaded, and the canonical file keeps every identifier it holds,
\* whether the save succeeds or fails.  Only a restore may remove one.
NeverRemovedButByRestore ==
    [][/\ (pc = "loaded" /\ btn' \notin {"restore_latest", "restore_selected"})
          => PalletNos(pallets) \subseteq PalletNos(pallets')
       /\ ~RestoreRun
          => (fs'[DATA_FILE] = fs[DATA_FILE] \/ FileNos(fs) \subseteq FileNos(fs'))]_vars

\* a discard of the whole store, of two records or more, was saved: every record
\* is still there
AllDiscardedWitness ==
    /\ btn = "discard" /\ pc = "idle"
    /\ SuccessMsg(btn) \in msgs
    /\ Len(pallets) >= 2
    /\ \A k \in 1..Len(pallets) : pallets[k].Status = "Discarded"
    /\ file = to_csv(pallets)

\* row k of the table stays "Discarded" in this step if it is "Discarded"
StaysDiscarded(k) == pallets[k].Status = "Discarded" => pallets'[k].Status = "Discarded"

\* C15, as claimed: a record whose status is "Discarded" is still "Discarded"
\* after the handler of every add, update or discard.
DiscardedTerminal ==
    [][(pc = "loaded" /\ btn' \in {"add", "update", "discard"})
       => \A k \in 1..Len(pallets) : StaysDiscarded(k)]_vars

\* C15, amended: a record whose status is "Discarded" keeps it in every add
\* and every discard; an update gives every record of its batch that is in
\* the store the new location and status and the current time, a "Discarded"
\* record included.
DiscardedKeptButByUpdate ==
    [][/\ (pc = "loaded" /\ btn' \in {"add", "discard"})
          => \A k \in 1..Len(pallets) : StaysDiscarded(k)
       /\ \A s \in UpdateStarts, n \in CountInputs,
             l \in UpdateLocationInputs, st \in UpdateStatusInputs :
             (UpdatePallets(s, n, l, st) /\ ~new_pallets'.err)
             => \A k \in 1..Len(pallets) :
                   (\E j \in 1..n : new_pallets'.ids[j] = pallets[k].Pallet_No)
                   => /\ pallets'[k].Status = st
                      /\ pallets'[k].Location = l
                      /\ pallets'[k].Date.t = now]_vars

\* an update is being saved that made a record "Delivered" which the canonical
\* file still holds as "Discarded"
DiscardedUpdatedWitness ==
    /\ btn = "update" /\ pc = "write_tmp"
    /\ \E k \in 1..Len(pallets) :
          /\ k <= Len(file.rows)
          /\ file.rows[k].Status = "Discarded"
          /\ pallets[k].Status = "Delivered"

\* no record of table `old` has a later Date than the record of the same
\* Pallet_No in table `new`
DatesNotBefore(old, new) ==
    \/ old = new
    \/ \A k \in 1..Len(old), j \in 1..Len(new) :
          old[k].Pallet_No = new[j].Pallet_No => old[k].Date.t <= new[j].Date.t

\* the same for the tables held by the canonical files f and g
FileDatesNotBefore(f, g) ==
    \/ f[DATA_FILE] = g[DATA_FILE]
    \/ DatesNotBefore(load_data(f[DATA_FILE]), load_data(g[DATA_FILE]))

\* every record of `new` that is not in `old` with the same location and
\* status has the Date t
ChangesStamped(old, new, t) ==
    \/ old = new
    \/ \A j \in 1..Len(new) :
          (\A k \in 1..Len(old) :
              \/ old[k].Pallet_No # new[j].Pallet_No
              \/ old[k].Location # new[j].Location
              \/ old[k].Status # new[j].Status)
          => new[j].Date.t = t

\* C16, as claimed: the Date of a record never decreases, in the table the
\* handler of any button (restore included) works on and in the canonical
\* file, and a handler that changes a record's location or status sets its
\* Date to the current time.
DateNeverDecreases ==
    [][/\ pc = "loaded"
          => /\ DatesNotBefore(pallets, pallets')
             /\ ChangesStamped(pallets, pallets', now)
       /\ FileDatesNotBefore(fs, fs')]_vars

\* C16, amended: in add, update, discard, refresh and snapshot the Date of a
\* record never decreases, in the table the handler works on and in the
\* canonical file, and every record the handler creates or changes in
\* location or status gets the current time as Date.  A restore is excepted.
DateNeverDecreasesButByRestore ==
    [][/\ (pc = "loaded" /\ btn' \notin {"restore_latest", "restore_selected"})
          => /\ DatesNotBefore(pallets, pallets')
             /\ ChangesStamped(pallets, pallets', now)
       /\ ~RestoreRun => FileDatesNotBefore(fs, fs')]_vars

\* an update was saved in a later second than the one in which the record was
\* added: its Date is the time of the update, later than in the snapshot of
\* the add
DateAdvancedWitness ==
    /\ btn = "update" /\ pc = "idle"
    /\ SuccessMsg(btn) \in msgs
    /\ file = to_csv(pallets)
    /\ \E k \in 1..Len(pallets), e \in backups :
          /\ e.ok /\ e.data # <<>>
          /\ e.data[1].Pallet_No = pallets[k].Pallet_No
          /\ e.data[1].Date < pallets[k].Date.t
          /\ pallets[k].Status = "Delivered"

\* a step in which create_backup is called: by "Create Backup" or at the end
\* of an add
SnapshotStep ==
    \/ pc = "loaded" /\ btn' = "backup"
    \/ pc = "backup" /\ pc' = "idle"

\* C17: every snapshot call writes an entry under a name no entry of the
\* archive has yet, and every entry that was in the archive is afterwards
\* either unchanged or pruned, also for two calls in the same second.
SnapshotNamesFresh ==
    [][SnapshotStep
       => /\ \E e \in backups' : e.name \notin BackupNames(backups)
          /\ \A e \in backups : e \in backups' \/ e.name \notin BackupNames(backups')]_vars

\* C18: while three or more attempts in a row have failed and fewer than 300
\* seconds have passed since the last attempt, no step submits an attempt or
\* authenticates the session, whatever is typed; and a step that
\* authenticates the session sets the counter of failed attempts to 0.
LoginThrottled ==
    [][/\ (/\ ~authenticated
           /\ login_attempts >= 3
           /\ last_attempt # NoAttempt
           /\ now - last_attempt < 300)
          => /\ ~authenticated'
             /\ last_attempt' = last_attempt
             /\ login_attempts' = login_attempts
       /\ (~authenticated /\ authenticated') => login_attempts' = 0]_vars

\* the login page was opened during the lockout, after the clock had advanced,
\* and showed the lockout message instead of the form
LoginThrottledWitness ==
    /\ btn = "login_page"
    /\ "Too many failed attempts" \in msgs
    /\ login_attempts = 3
    /\ now > last_attempt
    /\ now - last_attempt < 300
    /\ ~authenticated

\* C19: whenever 300 seconds or more have passed since the last failed
\* attempt, however long ago it was, the session is not locked out: the form
\* is offered.
LockoutEnds ==
    (/\ ~authenticated
     /\ login_attempts >= 1
     /\ last_attempt # NoAttempt
     /\ now - last_attempt >= 300)
    => ~LockedOut

====
